---- MODULE Spec2Model ----
(***************************************************************************)
(* Model of the experiment scripts of the repository:                      *)
(*   sacreddnn/scripts/esgd_dnn.py      robust-ensemble / entropy-SGD run  *)
(*   sacreddnn/scripts/activations.py   plain training run                 *)
(*   sacreddnn/sacreddnn/WIP/entropic_dnn.py                               *)
(*   normalization/models/resnet.py     ResNet.norm / BasicBlock.norm      *)
(* Seven specifications share the variables:                               *)
(*   Spec       the three main() functions, one step per statement group   *)
(*   SpecDev    the device list built at the start of esgd_dnn main        *)
(*   SpecTrain  train_esgd, one step per batch                             *)
(*   SpecEval   eval_loss_and_error, one step per batch                    *)
(*   SpecNorm   ResNet.norm and ResNet.forward on a one-channel network    *)
(*   SpecIdx    the sampler index lists of activations / entropic_dnn main *)
(*   SpecFeval  the closure of train_esgd inside one optimizer.step        *)
(***************************************************************************)
EXTENDS Integers, Sequences, FiniteSets, TLC

VARIABLES
  script,     \* which main() runs: "esgd", "activations", "entropic"
  cfg,        \* the sacred configuration (args)
  pc,         \* position of main()
  epoch,      \* loop variable of the training loop
  i,          \* loop variable of the dummy loop
  net,        \* RobustNet coupling fields (g, grate, gmax, Tmax, ...)
  mstate,     \* number of training passes applied to the model parameters
  lrPos,      \* scheduler.last_epoch: number of scheduler.step() calls
  lrSet,      \* lr written into optimizer.param_groups by hand (per mille), 0 = never
  lr,         \* activations / entropic_dnn: optimizer.param_groups[0]["lr"]
  lrUsed,     \* activations / entropic_dnn: lr and scheduler position of each train() call
  reports,    \* calls of report(), each with the model state it evaluated
  glog,       \* calls of increase_g / increase_g_lin / increase_g_cosine
  files,      \* files written by torch.save / copyfile: name -> model state
  artifacts,  \* ex.add_artifact calls: name and content at the time of the call
  dev,        \* SpecDev: inputs and result of the device-list construction
  tr,         \* SpecTrain: locals of train_esgd
  ev,         \* SpecEval: locals of eval_loss_and_error
  rn,         \* SpecNorm: the ResNet object and the probe input
  ix,         \* SpecIdx: dataset sizes, M, Mtest and the index lists built from them
  fe          \* SpecFeval: one optimizer.step and the closure evaluations it makes

mainVars == <<script, cfg, pc, epoch, i, net, mstate, lrPos, lrSet, lr, lrUsed, reports, glog, files, artifacts>>
vars == <<script, cfg, pc, epoch, i, net, mstate, lrPos, lrSet, lr, lrUsed, reports, glog, files,
          artifacts, dev, tr, ev, rn, ix, fe>>

----------------------------------------------------------------------------
(* Bounds of the model *)

MaxEpochs == 3      \* esgd_dnn: epochs in 1..MaxEpochs
MaxLast == 2        \* esgd_dnn: last_epoch in 0..MaxLast
MaxLogtime == 2     \* logtime in 1..MaxLogtime
MaxSaveEpoch == 2   \* save_epoch in -1..MaxSaveEpoch
MaxGmax == 3        \* gmax in 1..MaxGmax
MaxEpochsA == 10    \* activations / entropic_dnn: epochs in 1..MaxEpochsA

----------------------------------------------------------------------------
(* Python arithmetic *)

Min(a, b) == IF a <= b THEN a ELSE b

Abs(a) == IF a < 0 THEN -a ELSE a

\* Python's a % b for b # 0: the result has the sign of the divisor.
PyMod(a, b) == IF b > 0 THEN a % b ELSE -((-a) % (-b))

----------------------------------------------------------------------------
(* Numbers: Python floats and tensor entries are modelled as exact rationals *)
(* <<n, d>> in lowest terms with d > 0                                      *)

RECURSIVE Gcd(_, _)
Gcd(a, b) == IF b = 0 THEN a ELSE Gcd(b, a % b)

\* a / b for b # 0
Rat(a, b) ==
  LET g == Gcd(Abs(a), Abs(b))
      sg == IF b < 0 THEN -1 ELSE 1
  IN <<(sg * a) \div g, (sg * b) \div g>>

RInt(a) == <<a, 1>>
RAdd(p, q) == Rat(p[1] * q[2] + q[1] * p[2], p[2] * q[2])
RSub(p, q) == Rat(p[1] * q[2] - q[1] * p[2], p[2] * q[2])
RMul(p, q) == Rat(p[1] * q[1], p[2] * q[2])
RDiv(p, q) == Rat(p[1] * q[2], p[2] * q[1])
RAbs(p) == <<Abs(p[1]), p[2]>>
RLe(p, q) == p[1] * q[2] <= q[1] * p[2]

RECURSIVE SumSeq(_)
SumSeq(q) == IF q = <<>> THEN 0 ELSE q[1] + SumSeq(Tail(q))

----------------------------------------------------------------------------
(* RobustNet coupling schedule (sacreddnn/models/robust.py) *)

\* RobustNet(Net, y, g, grate, gmax, devices, use_center, Tmax=epochs)
RobustNet(c) ==
  [g |-> c.g, g0 |-> c.g, grate |-> c.grate, gmax |-> c.gmax, Tmax |-> c.epochs, t |-> 0]

\* Numerator of the ramp from 0 (t = 0) to T^3 (t = T) used by the cosine schedule.
Ramp(t, T) == 3 * t * t * T - 2 * t * t * t

increase_g_nocap(n) == [n EXCEPT !.g = n.g * (1 + n.grate)]

\* exponential schedule: multiply by 1 + grate, up to gmax times the starting coupling
increase_g(n) == [n EXCEPT !.g = Min(n.g * (1 + n.grate), n.g0 * n.gmax)]

\* linear schedule: add grate, up to gmax times the starting coupling
increase_g_lin(n) == [n EXCEPT !.g = Min(n.g + n.grate, n.g0 * n.gmax)]

\* cosine schedule: ramp from the starting coupling to gmax times it over Tmax steps
increase_g_cosine(n) ==
  LET t1 == Min(n.t + 1, n.Tmax)
  IN [n EXCEPT !.t = t1,
               !.g = n.g0 + ((n.g0 * (n.gmax - 1)) * Ramp(t1, n.Tmax)) \div Ramp(n.Tmax, n.Tmax)]

----------------------------------------------------------------------------
(* esgd_dnn.py main: schedulers *)

\* scheduler is None unless droplr is truthy or warmup wraps it
HasScheduler(c) == c.droplr.kind = "cosine" \/ c.droplr.val # 0 \/ c.warmup

GSchedApplySwapped(c, n) ==
  IF c.gsched = "exp" THEN [fn |-> "increase_g_lin", net |-> increase_g_lin(n)]
  ELSE IF c.gsched = "lin" THEN [fn |-> "increase_g", net |-> increase_g(n)]
  ELSE IF c.gsched = "cosine" THEN [fn |-> "increase_g_cosine", net |-> increase_g_cosine(n)]
  ELSE [fn |-> "", net |-> n]

\* the if / elif chain on args.gsched: the function called ("" for none) and its effect
GSchedApply(c, n) ==
  IF c.gsched = "exp" THEN [fn |-> "increase_g", net |-> increase_g(n)]
  ELSE IF c.gsched = "lin" THEN [fn |-> "increase_g_lin", net |-> increase_g_lin(n)]
  ELSE IF c.gsched = "cosine" THEN [fn |-> "increase_g_cosine", net |-> increase_g_cosine(n)]
  ELSE [fn |-> "", net |-> n]

\* glog after the call r made in the given phase of main
GLogged(r, log, phase, e, ms, nrep) ==
  IF r.fn = "" THEN log
  ELSE Append(log, [fn |-> r.fn, phase |-> phase, epoch |-> e, mstate |-> ms, nrep |-> nrep])

\* `y == 1 and model.startswith('resnet110') and droplr != 'cosine'`
WarmupResnet110(c) == c.y = 1 /\ c.model = "resnet110" /\ c.droplr.kind # "cosine"

\* the learning-rate part of the end of an epoch: the hand-written ResNet-110
\* warm-up leaves the scheduler alone, otherwise `if args.droplr: scheduler.step()`
LrPosAfterEpoch(c, pos) ==
  IF WarmupResnet110(c) THEN pos
  ELSE IF c.droplr.kind = "cosine" \/ c.droplr.val # 0 THEN pos + 1
  ELSE pos

----------------------------------------------------------------------------
(* esgd_dnn.py main *)

\* drop_mstones = "drop_150_225" parsed into [150, 225], scaled to the epochs modelled
Mstones == <<2, 3>>

NoFiles == [model |-> -1, final |-> -1, kept |-> {}]

EsgdCfgs ==
  { c \in [epochs : 1..MaxEpochs, last_epoch : 0..MaxLast, logtime : 1..MaxLogtime,
           save_model : BOOLEAN, save_epoch : -1..MaxSaveEpoch,
           droplr : {[kind |-> "num", val |-> 0], [kind |-> "num", val |-> 5],
                     [kind |-> "cosine", val |-> 0]},
           warmup : BOOLEAN, gsched : {"exp", "lin", "cosine", "none"},
           opt : {"entropy-sgd", "entropy-sgd2"},
           y : 1..2, model : {"lenet", "resnet110"},
           gtime : 1..2, g : 0..1, grate : 0..1, gmax : 1..MaxGmax] :
      \* combinations kept small: the options paired below do not interact
      /\ (c.opt = "entropy-sgd2" => c.gsched = "exp" /\ c.save_model = FALSE /\ c.warmup = FALSE)
      /\ (c.warmup => c.save_model = FALSE)
      /\ (c.save_model = FALSE => c.save_epoch \in {-1, 0})
      /\ (c.save_model => c.save_epoch # 0 /\ c.gmax = MaxGmax /\ c.grate = 1 /\ c.g = 1)
      /\ (c.model = "resnet110" => c.g = 1 /\ c.grate = 1 /\ c.gtime = 1)
      /\ (c.g = 0 => c.grate = 1 /\ c.gtime = 1 /\ c.gmax = MaxGmax)
      /\ (c.gsched = "none" => c.grate = 1 /\ c.gmax = MaxGmax) }

InitEsgdMain ==
  /\ script = "esgd"
  /\ cfg \in EsgdCfgs
  /\ pc = "report0"
  /\ epoch = 0
  /\ i = 0
  /\ net = RobustNet(cfg)
  /\ mstate = 0
  /\ lrPos = 0
  /\ lrSet = 0
  /\ lr = <<0, 1>>
  /\ lrUsed = <<>>
  /\ reports = <<>>
  /\ glog = <<>>
  /\ files = NoFiles
  /\ artifacts = <<>>

\* range(last_epoch + 1, epochs + 1) entered at e, or the code after the loop
LoopOrFinal(c, e) == IF e <= c.epochs THEN "train" ELSE "final"

\* report(args.last_epoch)
EsgdReport0 ==
  /\ script = "esgd" /\ pc = "report0"
  /\ reports' = Append(reports, [epoch |-> cfg.last_epoch, mstate |-> mstate])
  /\ pc' = "gtime"
  /\ UNCHANGED <<dev, tr, ev, rn, ix, fe, lr, lrUsed, script, cfg, epoch, i, net, mstate, lrPos, lrSet, glog, files, artifacts>>

\* model.g *= args.gtime
EsgdGtime ==
  /\ script = "esgd" /\ pc = "gtime"
  /\ net' = [net EXCEPT !.g = net.g * cfg.gtime, !.g0 = net.g * cfg.gtime]
  /\ i' = 0
  /\ pc' = IF cfg.last_epoch > 0 THEN "dummy" ELSE "extra"
  /\ UNCHANGED <<dev, tr, ev, rn, ix, fe, lr, lrUsed, script, cfg, epoch, mstate, lrPos, lrSet, reports, glog, files, artifacts>>

\* one iteration of `for i in range(args.last_epoch)`; scheduler.step() on None raises
EsgdDummy ==
  /\ script = "esgd" /\ pc = "dummy" /\ i < cfg.last_epoch
  /\ IF ~HasScheduler(cfg)
       THEN /\ pc' = "error"
            /\ UNCHANGED <<i, net, lrPos, glog>>
       ELSE /\ lrPos' = lrPos + 1
            /\ net' = GSchedApply(cfg, net).net
            /\ glog' = GLogged(GSchedApply(cfg, net), glog, "dummy", 0, mstate, Len(reports))
            /\ i' = i + 1
            /\ pc' = IF i + 1 < cfg.last_epoch THEN "dummy" ELSE "extra"
  /\ UNCHANGED <<dev, tr, ev, rn, ix, fe, lr, lrUsed, script, cfg, epoch, mstate, lrSet, reports, files, artifacts>>

\* `if args.gsched == 'cosine': model.increase_g_cosine()`, then the loop starts
EsgdExtra ==
  /\ script = "esgd" /\ pc = "extra"
  /\ IF cfg.gsched = "cosine"
       THEN /\ net' = increase_g_cosine(net)
            /\ glog' = GLogged([fn |-> "increase_g_cosine"], glog, "extra", 0, mstate, Len(reports))
       ELSE UNCHANGED <<net, glog>>
  /\ epoch' = cfg.last_epoch + 1
  /\ pc' = LoopOrFinal(cfg, cfg.last_epoch + 1)
  /\ UNCHANGED <<dev, tr, ev, rn, ix, fe, lr, lrUsed, script, cfg, i, mstate, lrPos, lrSet, reports, files, artifacts>>

\* the training pass of one epoch; train_esgd2 is not defined in the script
EsgdTrain ==
  /\ script = "esgd" /\ pc = "train"
  /\ IF cfg.opt = "entropy-sgd"
       THEN mstate' = mstate + 1 /\ pc' = "report"
       ELSE pc' = "error" /\ UNCHANGED mstate
  /\ UNCHANGED <<dev, tr, ev, rn, ix, fe, lr, lrUsed, script, cfg, epoch, i, net, lrPos, lrSet, reports, glog, files, artifacts>>

ReportDueAlways(e, logtime) == TRUE

\* `epoch % args.logtime == 0`
ReportDue(e, logtime) == PyMod(e, logtime) = 0

\* `if epoch % args.logtime == 0: report(epoch, ...)`
EsgdReport ==
  /\ script = "esgd" /\ pc = "report"
  /\ reports' = IF ReportDue(epoch, cfg.logtime)
                  THEN Append(reports, [epoch |-> epoch, mstate |-> mstate])
                  ELSE reports
  /\ pc' = "save"
  /\ UNCHANGED <<dev, tr, ev, rn, ix, fe, lr, lrUsed, script, cfg, epoch, i, net, mstate, lrPos, lrSet, glog, files, artifacts>>

SaveDueAlways(e, c) == c.save_model

\* `epoch % args.save_epoch == 0 and args.save_model`
SaveDue(e, c) == PyMod(e, c.save_epoch) = 0 /\ c.save_model

\* the checkpoint block; epoch % 0 raises ZeroDivisionError
EsgdSave ==
  /\ script = "esgd" /\ pc = "save"
  /\ IF cfg.save_epoch = 0
       THEN pc' = "error" /\ UNCHANGED <<files, artifacts>>
       ELSE /\ pc' = "gsched"
            /\ IF SaveDue(epoch, cfg)
                 THEN IF cfg.save_epoch > 0
                        THEN /\ files' = [files EXCEPT !.model = mstate,
                                             !.kept = {k \in files.kept : k.epoch # epoch}
                                                        \cup {[epoch |-> epoch, content |-> mstate]}]
                             /\ artifacts' = artifacts \o
                                  << [name |-> "kept", epoch |-> epoch, content |-> mstate],
                                     [name |-> "model", epoch |-> epoch, content |-> mstate] >>
                        ELSE /\ files' = [files EXCEPT !.model = mstate]
                             /\ artifacts' = Append(artifacts,
                                  [name |-> "model", epoch |-> epoch, content |-> mstate])
                 ELSE UNCHANGED <<files, artifacts>>
  /\ UNCHANGED <<dev, tr, ev, rn, ix, fe, lr, lrUsed, script, cfg, epoch, i, net, mstate, lrPos, lrSet, reports, glog>>

\* the `#schedulers` if / elif chain of the epoch
EsgdGSched ==
  /\ script = "esgd" /\ pc = "gsched"
  /\ net' = GSchedApply(cfg, net).net
  /\ glog' = GLogged(GSchedApply(cfg, net), glog, "epoch", epoch, mstate, Len(reports))
  /\ pc' = "lrsched"
  /\ UNCHANGED <<dev, tr, ev, rn, ix, fe, lr, lrUsed, script, cfg, epoch, i, mstate, lrPos, lrSet, reports, files, artifacts>>

\* the hand-written warm-up of ResNet-110: args.lr = 0.1 / 0.01 / 0.001, in 1/1000
Resnet110Lr(e, old) ==
  IF e = 1 THEN 100
  ELSE IF e = Mstones[1] THEN 10
  ELSE IF e = Mstones[2] THEN 1
  ELSE old

\* end of the epoch: ResNet-110 warm-up or scheduler.step(), then the next epoch
EsgdLrSched ==
  /\ script = "esgd" /\ pc = "lrsched"
  /\ lrSet' = IF WarmupResnet110(cfg) THEN Resnet110Lr(epoch, lrSet) ELSE lrSet
  /\ lrPos' = LrPosAfterEpoch(cfg, lrPos)
  /\ epoch' = epoch + 1
  /\ pc' = LoopOrFinal(cfg, epoch + 1)
  /\ UNCHANGED <<dev, tr, ev, rn, ix, fe, lr, lrUsed, script, cfg, i, net, mstate, reports, glog, files, artifacts>>

\* `# Save model after training`
EsgdFinal ==
  /\ script = "esgd" /\ pc = "final"
  /\ IF cfg.save_model
       THEN /\ files' = [files EXCEPT !.final = mstate]
            /\ artifacts' = Append(artifacts, [name |-> "final", epoch |-> epoch - 1, content |-> mstate])
       ELSE UNCHANGED <<files, artifacts>>
  /\ pc' = "done"
  /\ UNCHANGED <<dev, tr, ev, rn, ix, fe, lr, lrUsed, script, cfg, epoch, i, net, mstate, lrPos, lrSet, reports, glog>>

EsgdNext ==
  \/ EsgdReport0 \/ EsgdGtime \/ EsgdDummy \/ EsgdExtra \/ EsgdTrain
  \/ EsgdReport \/ EsgdSave \/ EsgdGSched \/ EsgdLrSched \/ EsgdFinal

----------------------------------------------------------------------------
(* activations.py main and entropic_dnn.py main *)

SavePeriod == 10    \* the literal of `epoch % 10`

PlainCfgs == [epochs : 1..MaxEpochsA, logtime : 1..MaxLogtime,
              save_model : BOOLEAN, droplr : {0, 1, 2, 5}, lr : {<<1, 10>>}]

RECURSIVE RPow(_, _)
RPow(p, k) == IF k = 0 THEN RInt(1) ELSE RMul(p, RPow(p, k - 1))

\* the number of entries of the list ms equal to v
CountOf(ms, v) == Cardinality({j \in 1..Len(ms) : ms[j] = v})

MilestonesUnfloored(epochs) == <<(epochs + 1) \div 2, (epochs * 3 + 3) \div 4, (epochs * 15 + 15) \div 16>>

\* `milestones=[args.epochs//2, args.epochs*3//4, args.epochs*15//16]`
Milestones(epochs) == <<epochs \div 2, (epochs * 3) \div 4, (epochs * 15) \div 16>>

\* `gamma_sched = 1/args.droplr if args.droplr > 0 else 1`
GammaSched(droplr) == IF droplr > 0 THEN Rat(1, droplr) ELSE RInt(1)

\* MultiStepLR at position last: the lr is multiplied by gamma once for every
\* entry of the milestone list equal to last (the list is kept as a Counter)
MultiStepLR(old, gamma, ms, last) == RMul(old, RPow(gamma, CountOf(ms, last)))

\* optimizer = get_optimizer(args, model), then `if args.droplr:` the scheduler
\* is constructed, which makes its first step to position 0
InitLr(c) ==
  IF c.droplr # 0 THEN MultiStepLR(c.lr, GammaSched(c.droplr), Milestones(c.epochs), 0)
  ELSE c.lr

\* `if args.droplr: scheduler.step()`
SchedulerStep(c, old, last) ==
  IF c.droplr # 0
    THEN [lr |-> MultiStepLR(old, GammaSched(c.droplr), Milestones(c.epochs), last + 1),
          last_epoch |-> last + 1]
    ELSE [lr |-> old, last_epoch |-> last]

InitPlainMain ==
  /\ script \in {"activations", "entropic"}
  /\ cfg \in PlainCfgs
  /\ pc = "report0"
  /\ epoch = 0
  /\ i = 0
  /\ net = [g |-> 0, g0 |-> 0, grate |-> 0, gmax |-> 1, Tmax |-> cfg.epochs, t |-> 0]
  /\ mstate = 0
  /\ lrPos = 0
  /\ lrSet = 0
  /\ lr = InitLr(cfg)
  /\ lrUsed = <<>>
  /\ reports = <<>>
  /\ glog = <<>>
  /\ files = NoFiles
  /\ artifacts = <<>>

\* `epoch % 10`, used as a truth value
CkptDue(e) == PyMod(e, SavePeriod) # 0

\* report(0), then `for epoch in range(1, args.epochs + 1)`
ActReport0 ==
  /\ script = "activations" /\ pc = "report0"
  /\ reports' = Append(reports, [epoch |-> 0, mstate |-> mstate])
  /\ epoch' = 1
  /\ pc' = IF 1 <= cfg.epochs THEN "train" ELSE "final"
  /\ UNCHANGED <<dev, tr, ev, rn, ix, fe, lr, lrUsed, script, cfg, i, net, mstate, lrPos, lrSet, glog, files, artifacts>>

\* train(loss, model, device, train_loader, optimizer)
ActTrain ==
  /\ script = "activations" /\ pc = "train"
  /\ mstate' = mstate + 1
  /\ lrUsed' = Append(lrUsed, [epoch |-> epoch, lr |-> lr, last_epoch |-> lrPos])
  /\ pc' = "report"
  /\ UNCHANGED <<dev, tr, ev, rn, ix, fe, lr, script, cfg, epoch, i, net, lrPos, lrSet, reports, glog, files, artifacts>>

\* `if epoch % args.logtime == 0: report(epoch)`
ActReport ==
  /\ script = "activations" /\ pc = "report"
  /\ reports' = IF ReportDue(epoch, cfg.logtime)
                  THEN Append(reports, [epoch |-> epoch, mstate |-> mstate])
                  ELSE reports
  /\ pc' = "save"
  /\ UNCHANGED <<dev, tr, ev, rn, ix, fe, lr, lrUsed, script, cfg, epoch, i, net, mstate, lrPos, lrSet, glog, files, artifacts>>

\* `if epoch % 10 and args.save_model: torch.save(...); ex.add_artifact(...)`
ActSave ==
  /\ script = "activations" /\ pc = "save"
  /\ IF CkptDue(epoch) /\ cfg.save_model
       THEN /\ files' = [files EXCEPT !.model = mstate]
            /\ artifacts' = Append(artifacts, [name |-> "model", epoch |-> epoch, content |-> mstate])
       ELSE UNCHANGED <<files, artifacts>>
  /\ pc' = "lrsched"
  /\ UNCHANGED <<dev, tr, ev, rn, ix, fe, lr, lrUsed, script, cfg, epoch, i, net, mstate, lrPos, lrSet, reports, glog>>

\* `if args.droplr: scheduler.step()`, the last statement of the epoch
ActLrSched ==
  /\ script = "activations" /\ pc = "lrsched"
  /\ lrPos' = SchedulerStep(cfg, lr, lrPos).last_epoch
  /\ lr' = SchedulerStep(cfg, lr, lrPos).lr
  /\ epoch' = epoch + 1
  /\ pc' = IF epoch + 1 <= cfg.epochs THEN "train" ELSE "final"
  /\ UNCHANGED <<dev, tr, ev, rn, ix, fe, lrUsed, script, cfg, i, net, mstate, lrSet, reports, glog, files, artifacts>>

\* `if args.save_model: ex.add_artifact(save_path, ...)`: the file as it is on disk
ActFinal ==
  /\ script = "activations" /\ pc = "final"
  /\ artifacts' = IF cfg.save_model
                    THEN Append(artifacts, [name |-> "final", epoch |-> epoch - 1, content |-> files.model])
                    ELSE artifacts
  /\ pc' = "done"
  /\ UNCHANGED <<dev, tr, ev, rn, ix, fe, lr, lrUsed, script, cfg, epoch, i, net, mstate, lrPos, lrSet, reports, glog, files>>

\* report(0), then `for epoch in range(1, args.epochs + 1)`
EntReport0 ==
  /\ script = "entropic" /\ pc = "report0"
  /\ reports' = Append(reports, [epoch |-> 0, mstate |-> mstate])
  /\ epoch' = 1
  /\ pc' = IF 1 <= cfg.epochs THEN "lrsched" ELSE "final"
  /\ UNCHANGED <<dev, tr, ev, rn, ix, fe, lr, lrUsed, script, cfg, i, net, mstate, lrPos, lrSet, glog, files, artifacts>>

\* `if args.droplr: scheduler.step()`, the first statement of the epoch
EntLrSched ==
  /\ script = "entropic" /\ pc = "lrsched"
  /\ lrPos' = SchedulerStep(cfg, lr, lrPos).last_epoch
  /\ lr' = SchedulerStep(cfg, lr, lrPos).lr
  /\ pc' = "train"
  /\ UNCHANGED <<dev, tr, ev, rn, ix, fe, lrUsed, script, cfg, epoch, i, net, mstate, lrSet, reports, glog, files, artifacts>>

\* train(loss, model, device, train_loader, optimizer)
EntTrain ==
  /\ script = "entropic" /\ pc = "train"
  /\ mstate' = mstate + 1
  /\ lrUsed' = Append(lrUsed, [epoch |-> epoch, lr |-> lr, last_epoch |-> lrPos])
  /\ pc' = "report"
  /\ UNCHANGED <<dev, tr, ev, rn, ix, fe, lr, script, cfg, epoch, i, net, lrPos, lrSet, reports, glog, files, artifacts>>

\* `if epoch % args.logtime == 0: report(epoch)`
EntReport ==
  /\ script = "entropic" /\ pc = "report"
  /\ reports' = IF ReportDue(epoch, cfg.logtime)
                  THEN Append(reports, [epoch |-> epoch, mstate |-> mstate])
                  ELSE reports
  /\ pc' = "save"
  /\ UNCHANGED <<dev, tr, ev, rn, ix, fe, lr, lrUsed, script, cfg, epoch, i, net, mstate, lrPos, lrSet, glog, files, artifacts>>

\* `if epoch % 10 and args.save_model: ...`, the last statement of the epoch
EntSave ==
  /\ script = "entropic" /\ pc = "save"
  /\ IF CkptDue(epoch) /\ cfg.save_model
       THEN /\ files' = [files EXCEPT !.model = mstate]
            /\ artifacts' = Append(artifacts, [name |-> "model", epoch |-> epoch, content |-> mstate])
       ELSE UNCHANGED <<files, artifacts>>
  /\ epoch' = epoch + 1
  /\ pc' = IF epoch + 1 <= cfg.epochs THEN "lrsched" ELSE "final"
  /\ UNCHANGED <<dev, tr, ev, rn, ix, fe, lr, lrUsed, script, cfg, i, net, mstate, lrPos, lrSet, reports, glog>>

\* `if args.save_model: ex.add_artifact(save_path, ...)`: the file as it is on disk
EntFinal ==
  /\ script = "entropic" /\ pc = "final"
  /\ artifacts' = IF cfg.save_model
                    THEN Append(artifacts, [name |-> "final", epoch |-> epoch - 1, content |-> files.model])
                    ELSE artifacts
  /\ pc' = "done"
  /\ UNCHANGED <<dev, tr, ev, rn, ix, fe, lr, lrUsed, script, cfg, epoch, i, net, mstate, lrPos, lrSet, reports, glog, files>>

PlainNext ==
  \/ ActReport0 \/ ActTrain \/ ActReport \/ ActSave \/ ActLrSched \/ ActFinal
  \/ EntReport0 \/ EntLrSched \/ EntTrain \/ EntReport \/ EntSave \/ EntFinal

----------------------------------------------------------------------------
(* The specification of the three main() functions *)

IdleDev == dev = [pc |-> "idle"]
IdleTrain == tr = [pc |-> "idle"]
IdleEval == ev = [pc |-> "idle"]
IdleNorm == rn = [pc |-> "idle"]
IdleIdx == ix = [pc |-> "idle"]
IdleFeval == fe = [pc |-> "idle"]

Init == (InitEsgdMain \/ InitPlainMain) /\ IdleDev /\ IdleTrain /\ IdleEval /\ IdleNorm /\ IdleIdx /\ IdleFeval

Next == EsgdNext \/ PlainNext

Spec == Init /\ [][Next]_vars

----------------------------------------------------------------------------
(* Claims about the three main() functions *)

\* the epoch reported before training: last_epoch in esgd_dnn, 0 in the other two
FirstEpoch == IF script = "esgd" THEN cfg.last_epoch ELSE 0

\* the indices of the entries of log whose field epoch is e and name is nm
ArtifactsOf(nm, e) == {k \in 1..Len(artifacts) : artifacts[k].name = nm /\ artifacts[k].epoch = e}

GCallsOf(e) == {k \in 1..Len(glog) : glog[k].phase = "epoch" /\ glog[k].epoch = e}

\* the iteration of epoch e has passed its `#schedulers` statement
GSchedPassed(e) == e > cfg.last_epoch /\ (e < epoch \/ (e = epoch /\ pc = "lrsched"))

\* C2: every epoch of esgd_dnn main makes exactly one coupling-schedule call,
\* the one gsched names, after the epoch's training pass and after its report
\* (when one is due); for any other gsched no call is ever made and g keeps
\* the value g * gtime.
C2_OneScheduleStepPerEpoch ==
  script = "esgd" =>
    /\ \A e \in 1..cfg.epochs :
         /\ Cardinality(GCallsOf(e)) =
              (IF GSchedPassed(e) /\ cfg.gsched \in {"exp", "lin", "cosine"} THEN 1 ELSE 0)
         /\ \A k \in GCallsOf(e) :
              /\ cfg.gsched = "exp" => glog[k].fn = "increase_g"
              /\ cfg.gsched = "lin" => glog[k].fn = "increase_g_lin"
              /\ cfg.gsched = "cosine" => glog[k].fn = "increase_g_cosine"
              /\ glog[k].mstate = e - cfg.last_epoch
              /\ (e % cfg.logtime = 0) =>
                   \E r \in 2..glog[k].nrep : reports[r].epoch = e
    /\ cfg.gsched \notin {"exp", "lin", "cosine"} =>
         /\ glog = <<>>
         /\ pc \notin {"report0", "gtime"} => net.g = cfg.g * cfg.gtime

\* a resumed linear-schedule run has made one call in each of two epochs
C2_Witness ==
  /\ script = "esgd" /\ pc = "done" /\ cfg.gsched = "lin" /\ cfg.logtime = 1
  /\ cfg.last_epoch = 1 /\ cfg.epochs = 3
  /\ Cardinality(GCallsOf(2)) = 1 /\ Cardinality(GCallsOf(3)) = 1

\* the scheduler position of an uninterrupted run (last_epoch = 0) after k epochs
RECURSIVE RefLrPos(_, _)
RefLrPos(c, k) == IF k = 0 THEN 0 ELSE LrPosAfterEpoch(c, RefLrPos(c, k - 1))

\* the coupling fields of an uninterrupted run after k epochs
RECURSIVE RefNet(_, _)
RefNet(c, k) ==
  IF k = 0
    THEN LET n0 == [RobustNet(c) EXCEPT !.g = c.g * c.gtime, !.g0 = c.g * c.gtime]
         IN IF c.gsched = "cosine" THEN increase_g_cosine(n0) ELSE n0
    ELSE GSchedApply(c, RefNet(c, k - 1)).net

\* C7: a run started with last_epoch = k > 0 enters its first epoch with the
\* scheduler position and the coupling fields that an uninterrupted run has
\* after k epochs.
C7_ResumeMatchesUninterrupted ==
  (script = "esgd" /\ cfg.last_epoch > 0 /\ pc \in {"train", "final"} /\ mstate = 0)
    => /\ lrPos = RefLrPos(cfg, cfg.last_epoch)
       /\ net = RefNet(cfg, cfg.last_epoch)

\* the report point of epoch e has been passed
ReportPassed(e) == mstate >= e - FirstEpoch /\ ~(pc = "report" /\ epoch = e)

\* C8: in the three scripts the first report is made before any training, for
\* epoch last_epoch (esgd_dnn) or 0; every later report is for a trained epoch
\* e with e % logtime = 0 and evaluates the model after exactly the training
\* passes up to e; and every such epoch is reported exactly once.
C8_ReportTiming ==
  /\ pc = "report0" => reports = <<>>
  /\ pc # "report0" =>
       /\ Len(reports) >= 1
       /\ reports[1] = [epoch |-> FirstEpoch, mstate |-> 0]
  /\ \A k \in 2..Len(reports) :
       /\ reports[k].epoch \in (FirstEpoch + 1)..cfg.epochs
       /\ reports[k].epoch % cfg.logtime = 0
       /\ reports[k].mstate = reports[k].epoch - FirstEpoch
  /\ \A e \in (FirstEpoch + 1)..cfg.epochs :
       Cardinality({k \in 2..Len(reports) : reports[k].epoch = e}) =
         (IF ReportPassed(e) /\ e % cfg.logtime = 0 THEN 1 ELSE 0)

\* a resumed esgd_dnn run with logtime 2 has reported epoch 1 and then epoch 2 only
C8_Witness ==
  /\ script = "esgd" /\ pc = "done" /\ cfg.logtime = 2
  /\ cfg.last_epoch = 1 /\ cfg.epochs = 3
  /\ Len(reports) = 2 /\ reports[2] = [epoch |-> 2, mstate |-> 1]

\* the iteration of epoch e has passed its checkpoint block
SavePassed(e) == e > cfg.last_epoch /\ (e < epoch \/ (e = epoch /\ pc \in {"gsched", "lrsched"}))

\* C9: with save_model and save_epoch = k > 0, esgd_dnn main writes the
\* checkpoint and keeps a per-epoch copy at exactly the trained epochs e with
\* e % k = 0, each holding the model after epoch e, and writes the final
\* checkpoint exactly once, after the loop.
C9_CheckpointEpochs ==
  (script = "esgd" /\ cfg.save_model /\ cfg.save_epoch > 0) =>
    /\ \A e \in 1..cfg.epochs :
         LET due == SavePassed(e) /\ e % cfg.save_epoch = 0
         IN /\ Cardinality(ArtifactsOf("kept", e)) = (IF due THEN 1 ELSE 0)
            /\ Cardinality(ArtifactsOf("model", e)) = (IF due THEN 1 ELSE 0)
            /\ ([epoch |-> e, content |-> e - cfg.last_epoch] \in files.kept) = due
            /\ \A k \in ArtifactsOf("kept", e) \cup ArtifactsOf("model", e) :
                 artifacts[k].content = e - cfg.last_epoch
    /\ Cardinality({k \in 1..Len(artifacts) : artifacts[k].name = "final"}) =
         (IF pc = "done" THEN 1 ELSE 0)
    /\ pc = "done" =>
         /\ artifacts[Len(artifacts)] = [name |-> "final", epoch |-> epoch - 1, content |-> mstate]
         /\ files.final = mstate

\* three epochs with save_epoch 2: one kept copy, of epoch 2, and the final checkpoint
C9_Witness ==
  /\ script = "esgd" /\ pc = "done" /\ cfg.save_model /\ cfg.save_epoch = 2
  /\ cfg.last_epoch = 0 /\ cfg.epochs = 3
  /\ files.kept = {[epoch |-> 2, content |-> 2]} /\ files.final = 3

\* C10: with save_model, the artifact that activations.py and entropic_dnn.py
\* add after training holds the model state reached after the final epoch.
C10_FinalArtifactIsFinalModel ==
  (script \in {"activations", "entropic"} /\ pc = "done" /\ cfg.save_model)
    => /\ artifacts[Len(artifacts)].name = "final"
       /\ artifacts[Len(artifacts)].content = mstate
       /\ mstate = cfg.epochs

\* the scheduler steps made when train() of epoch e runs: activations.py steps
\* at the end of each epoch, entropic_dnn.py at its start
StepsAtTrain(e) == IF script = "activations" THEN e - 1 ELSE e

\* C11: in activations.py and entropic_dnn.py, with droplr 0 or 1 every epoch
\* trains with the configured lr; with droplr = d > 1 the scheduler is stepped
\* exactly once per epoch and the lr of an epoch is the configured lr times
\* 1/d for each of the milestones epochs//2, epochs*3//4, epochs*15//16 that
\* the scheduler has passed.
C11_LrSchedule ==
  script \in {"activations", "entropic"} =>
    /\ \A k \in 1..Len(lrUsed) :
         /\ lrUsed[k].epoch = k
         /\ cfg.droplr \in {0, 1} => lrUsed[k].lr = cfg.lr
         /\ cfg.droplr > 1 =>
              LET steps == StepsAtTrain(k)
                  passed == {j \in 1..3 :
                               <<cfg.epochs \div 2, (cfg.epochs * 3) \div 4,
                                 (cfg.epochs * 15) \div 16>>[j] <= steps}
                  n == Cardinality(passed)
              IN /\ lrUsed[k].last_epoch = steps
                 \* lr = cfg.lr / d^n, as a cross-multiplication
                 /\ lrUsed[k].lr[1] * cfg.lr[2] * (cfg.droplr ^ n) = cfg.lr[1] * lrUsed[k].lr[2]
    /\ (cfg.droplr > 1 /\ pc \in {"final", "done"}) => lrPos = cfg.epochs

\* activations.py, droplr = 5, epochs = 10: the milestones 5, 7 and 9 are
\* passed on the way and the last epoch trains with lr / 125
C11_Witness ==
  /\ script = "activations" /\ cfg.droplr = 5 /\ cfg.epochs = 10 /\ pc = "done"
  /\ Len(lrUsed) = 10
  /\ lrUsed[5].lr = <<1, 10>> /\ lrUsed[6].lr = <<1, 50>>
  /\ lrUsed[8].lr = <<1, 250>> /\ lrUsed[10].lr = <<1, 1250>>

----------------------------------------------------------------------------
(* esgd_dnn.py main: the device list *)

MaxY == 3           \* y in 1..MaxY
MaxDevices == 2     \* torch.cuda.device_count() in 1..MaxDevices
MaxGpuList == 3     \* gpu lists of length 0..MaxGpuList

Cuda(k) == [type |-> "cuda", index |-> k]
Cpu == [type |-> "cpu", index |-> -1]

\* the values of args.gpu: 'distribute', an int, a list of ints, anything else
GpuSettings ==
  {[kind |-> "distribute", id |-> 0, ids |-> <<>>]}
  \cup {[kind |-> "int", id |-> k, ids |-> <<>>] : k \in 0..(MaxDevices - 1)}
  \cup {[kind |-> "list", id |-> 0, ids |-> q] :
          q \in UNION {[1..n -> 0..(MaxDevices - 1)] : n \in 0..MaxGpuList}}
  \cup {[kind |-> "other", id |-> 0, ids |-> <<>>]}

Raised(e) == [err |-> e, list |-> <<>>]

DevicesShort(use_cuda, gpu, y, ndevices) ==
  IF use_cuda
    THEN IF gpu.kind = "distribute"
           THEN [err |-> "", list |-> [r \in 1..y |-> Cuda((r - 1) % ndevices)]]
         ELSE IF gpu.kind = "int" THEN [err |-> "", list |-> [r \in 1..y |-> Cuda(gpu.id)]]
         ELSE IF gpu.kind # "list" THEN Raised("ValueError")
         ELSE IF Len(gpu.ids) = 0 THEN Raised("ZeroDivisionError")
         ELSE [err |-> "",
               list |-> [r \in 1..y |-> Cuda(gpu.ids[((r - 1) % Len(gpu.ids)) + 1])]]
    ELSE [err |-> "", list |-> [r \in 1..y |-> Cpu]]

DevicesUnchecked(use_cuda, gpu, y, ndevices) ==
  IF use_cuda
    THEN IF gpu.kind = "distribute"
           THEN [err |-> "", list |-> [r \in 1..(y + 1) |-> Cuda((r - 1) % ndevices)]]
         ELSE IF gpu.kind \in {"int", "other"}
           THEN [err |-> "", list |-> [r \in 1..(y + 1) |-> Cuda(gpu.id)]]
         ELSE IF Len(gpu.ids) = 0 THEN Raised("ZeroDivisionError")
         ELSE [err |-> "",
               list |-> [r \in 1..(y + 1) |-> Cuda(gpu.ids[((r - 1) % Len(gpu.ids)) + 1])]]
    ELSE [err |-> "", list |-> [r \in 1..(y + 1) |-> Cpu]]

\* the if / elif / else on args.gpu; entry r of the Python list is element r + 1
\* here, err names the exception raised instead
Devices(use_cuda, gpu, y, ndevices) ==
  IF use_cuda
    THEN IF gpu.kind = "distribute"
           THEN [err |-> "", list |-> [r \in 1..(y + 1) |-> Cuda((r - 1) % ndevices)]]
         ELSE IF gpu.kind = "int" THEN [err |-> "", list |-> [r \in 1..(y + 1) |-> Cuda(gpu.id)]]
         ELSE IF gpu.kind # "list" THEN Raised("ValueError")
         ELSE IF Len(gpu.ids) = 0 THEN Raised("ZeroDivisionError")
         ELSE [err |-> "",
               list |-> [r \in 1..(y + 1) |-> Cuda(gpu.ids[((r - 1) % Len(gpu.ids)) + 1])]]
    ELSE [err |-> "", list |-> [r \in 1..(y + 1) |-> Cpu]]

\* the name printed for entry r (0-based) of a list of n devices
RoleOf(r, n) == IF r < n - 1 THEN "replica" ELSE "master"

InitDev ==
  dev \in {[pc |-> "start", use_cuda |-> u, gpu |-> g, y |-> y, ndevices |-> nd,
            devices |-> <<>>, roles |-> <<>>, created |-> <<>>] :
             u \in BOOLEAN, g \in GpuSettings, y \in 1..MaxY, nd \in 1..MaxDevices}

\* `use_cuda = ...` up to the end of the if / else that assigns devices
DevBuild ==
  /\ dev.pc = "start"
  /\ LET d == Devices(dev.use_cuda, dev.gpu, dev.y, dev.ndevices)
     IN IF d.err # ""
          THEN dev' = [dev EXCEPT !.pc = d.err]
          ELSE dev' = [dev EXCEPT !.pc = "built", !.devices = d.list]
  /\ UNCHANGED <<tr, ev, rn, ix, fe>>
  /\ UNCHANGED mainVars

\* `for r, device in enumerate(devices): print(...)`
DevPrint ==
  /\ dev.pc = "built"
  /\ dev' = [dev EXCEPT !.pc = "printed",
                        !.roles = [r \in 1..Len(dev.devices) |-> RoleOf(r - 1, Len(dev.devices))]]
  /\ UNCHANGED <<tr, ev, rn, ix, fe>>
  /\ UNCHANGED mainVars

\* what main creates after the device list: get_dataset and the two loaders,
\* the RobustNet models, get_optimizer
DevSetup ==
  /\ dev.pc = "printed" /\ dev.created = <<>>
  /\ dev' = [dev EXCEPT !.created = <<"dataset", "model", "optimizer">>]
  /\ UNCHANGED <<tr, ev, rn, ix, fe>>
  /\ UNCHANGED mainVars

IdleMain ==
  /\ script = "none" /\ cfg = [epochs |-> 0] /\ pc = "idle" /\ epoch = 0 /\ i = 0
  /\ net = [g |-> 0] /\ mstate = 0 /\ lrPos = 0 /\ lrSet = 0 /\ lr = <<0, 1>> /\ lrUsed = <<>>
  /\ reports = <<>> /\ glog = <<>> /\ files = NoFiles /\ artifacts = <<>>

InitDevSpec == InitDev /\ IdleMain /\ IdleTrain /\ IdleEval /\ IdleNorm /\ IdleIdx /\ IdleFeval

NextDev == DevBuild \/ DevPrint \/ DevSetup

SpecDev == InitDevSpec /\ [][NextDev]_vars

\* C3: for gpu = 'distribute', an int or a non-empty list, and without CUDA,
\* main builds y + 1 devices; entries 0..y-1 are named replicas and entry y the
\* master; entry r is gpu[r mod l] for a list of length l, device r mod
\* device_count for 'distribute', the given device for an int, the CPU
\* without CUDA.
C3_DeviceList ==
  LET accepted == \/ ~dev.use_cuda
                  \/ dev.gpu.kind \in {"distribute", "int"}
                  \/ (dev.gpu.kind = "list" /\ Len(dev.gpu.ids) > 0)
  IN (dev.pc # "idle" /\ dev.pc # "start" /\ accepted) =>
       /\ dev.pc \in {"built", "printed"}
       /\ Len(dev.devices) = dev.y + 1
       /\ \A r \in 0..dev.y :
            dev.devices[r + 1] =
              (IF ~dev.use_cuda THEN [type |-> "cpu", index |-> -1]
               ELSE IF dev.gpu.kind = "distribute"
                 THEN [type |-> "cuda", index |-> r % dev.ndevices]
               ELSE IF dev.gpu.kind = "int" THEN [type |-> "cuda", index |-> dev.gpu.id]
               ELSE [type |-> "cuda", index |-> dev.gpu.ids[(r % Len(dev.gpu.ids)) + 1]])
       /\ dev.pc = "printed" =>
            /\ Len(dev.roles) = dev.y + 1
            /\ \A r \in 0..dev.y : dev.roles[r + 1] = (IF r < dev.y THEN "replica" ELSE "master")

\* three replicas on the gpu list [1, 0]: the list wraps around and the master is on gpu 1
C3_Witness ==
  /\ dev.pc = "printed" /\ dev.use_cuda /\ dev.gpu.kind = "list" /\ dev.gpu.ids = <<1, 0>>
  /\ dev.y = 3
  /\ dev.devices = <<Cuda(1), Cuda(0), Cuda(1), Cuda(0)>>

\* C13: with CUDA in use and gpu neither 'distribute', an int nor a list,
\* main raises ValueError before any dataset, model or optimizer is created;
\* without CUDA every gpu value is accepted and all y + 1 devices are the CPU.
C13_GpuValueError ==
  (dev.pc # "idle" /\ dev.pc # "start") =>
    /\ (dev.use_cuda /\ dev.gpu.kind \notin {"distribute", "int", "list"}) =>
         /\ dev.pc = "ValueError"
         /\ dev.created = <<>>
         /\ dev.devices = <<>>
    /\ ~dev.use_cuda =>
         /\ dev.pc \in {"built", "printed"}
         /\ Len(dev.devices) = dev.y + 1
         /\ \A r \in 1..(dev.y + 1) : dev.devices[r].type = "cpu"

\* CUDA in use and a gpu setting of another type: main has stopped with ValueError
C13_Witness ==
  /\ dev.pc = "ValueError" /\ dev.use_cuda /\ dev.gpu.kind = "other" /\ dev.y = 2
  /\ dev.created = <<>>

\* without CUDA the same gpu setting is accepted and main goes on to create
\* the dataset, the model and the optimizer on three CPU devices
C13_CpuAccepts ==
  /\ ~dev.use_cuda /\ dev.gpu.kind = "other" /\ dev.y = 2
  /\ dev.devices = <<Cpu, Cpu, Cpu>> /\ dev.created # <<>>

----------------------------------------------------------------------------
(* Data loaders *)

MaxData == 3        \* datasets of 1..MaxData samples
MaxBatch == 2       \* batch_size in 1..MaxBatch

\* the batch lengths of a DataLoader over n samples: batch_size each, the rest last
BatchSizes(n, bs) ==
  [k \in 1..((n + bs - 1) \div bs) |-> IF k * bs <= n THEN bs ELSE n - (k - 1) * bs]

\* RobustDataLoader(dataset, y, concatenate=True): each batch holds y batches side by side
RobustBatchSizes(n, bs, y) == [k \in 1..Len(BatchSizes(n, bs)) |-> y * BatchSizes(n, bs)[k]]

----------------------------------------------------------------------------
(* activations.py / entropic_dnn.py main: the index lists of the samplers *)

MaxM == 4           \* M and Mtest in -1..MaxM

\* list(range(n))
RangeList(n) == [k \in 1..n |-> k - 1]

\* `train_idxs = list(range(len(dtrain) if args.M <= 0 else args.M))`
TrainIdxs(ntrain, M) == RangeList(IF M <= 0 THEN ntrain ELSE M)

\* activations.py: `list(range(len(dtest) if args.Mtest <= 0 else args.Mtest))`
\* entropic_dnn.py: `list(range(len(dtest) if args.M <= 0 else min(args.M,len(dtest))))`
TestIdxs(scr, ntest, M, Mtest) ==
  IF scr = "activations" THEN RangeList(IF Mtest <= 0 THEN ntest ELSE Mtest)
  ELSE RangeList(IF M <= 0 THEN ntest ELSE Min(M, ntest))

\* dataset[j] for every j of the sampler's list: an index outside the dataset raises
Fetch(idxs, n) == IF \E k \in 1..Len(idxs) : idxs[k] >= n THEN "IndexError" ELSE "ok"

\* entropic_dnn.py has no Mtest option
InitIdx ==
  ix \in {[pc |-> "start", script |-> scr, M |-> M, Mtest |-> Mt, ntrain |-> a, ntest |-> b,
           train_idxs |-> <<>>, test_idxs |-> <<>>, train_seen |-> "", test_seen |-> ""] :
            scr \in {"activations", "entropic"}, M \in -1..MaxM, Mt \in -1..MaxM,
            a \in 1..MaxData, b \in 1..MaxData}
  /\ (ix.script = "entropic" => ix.Mtest = -1)

\* `dtrain, dtest = get_dataset(args)` up to the two DataLoaders
IdxBuild ==
  /\ ix.pc = "start"
  /\ ix' = [ix EXCEPT !.pc = "built",
                      !.train_idxs = TrainIdxs(ix.ntrain, ix.M),
                      !.test_idxs = TestIdxs(ix.script, ix.ntest, ix.M, ix.Mtest)]
  /\ UNCHANGED <<dev, tr, ev, rn, fe>>
  /\ UNCHANGED mainVars

\* report(0): eval_loss_and_error runs over train_loader: every index of the
\* sampler is fetched from dtrain
IdxEvalTrain ==
  /\ ix.pc = "built"
  /\ ix' = [ix EXCEPT !.train_seen = Fetch(ix.train_idxs, ix.ntrain),
                      !.pc = IF Fetch(ix.train_idxs, ix.ntrain) = "ok" THEN "evaltest"
                             ELSE "IndexError"]
  /\ UNCHANGED <<dev, tr, ev, rn, fe>>
  /\ UNCHANGED mainVars

\* report(0): eval_loss_and_error runs over test_loader
IdxEvalTest ==
  /\ ix.pc = "evaltest"
  /\ ix' = [ix EXCEPT !.test_seen = Fetch(ix.test_idxs, ix.ntest),
                      !.pc = IF Fetch(ix.test_idxs, ix.ntest) = "ok" THEN "reported"
                             ELSE "IndexError"]
  /\ UNCHANGED <<dev, tr, ev, rn, fe>>
  /\ UNCHANGED mainVars

InitIdxSpec == InitIdx /\ IdleMain /\ IdleDev /\ IdleTrain /\ IdleEval /\ IdleNorm /\ IdleFeval

NextIdx == IdxBuild \/ IdxEvalTrain \/ IdxEvalTest

SpecIdx == InitIdxSpec /\ [][NextIdx]_vars

\* C12: with M > 0 the training index list is the first M examples, with
\* Mtest > 0 (entropic_dnn.py: M > 0) the test index list is the first Mtest
\* (M) examples, and every index of either list is a valid index of its
\* dataset; with M <= 0 (Mtest <= 0) the list is the whole dataset.
C12_IndexSelection ==
  (ix.pc # "idle" /\ ix.pc # "start") =>
    LET mt == IF ix.script = "activations" THEN ix.Mtest ELSE ix.M
    IN /\ ix.M > 0 => ix.train_idxs = [k \in 1..ix.M |-> k - 1]
       /\ ix.M <= 0 => ix.train_idxs = [k \in 1..ix.ntrain |-> k - 1]
       /\ mt > 0 => ix.test_idxs = [k \in 1..mt |-> k - 1]
       /\ mt <= 0 => ix.test_idxs = [k \in 1..ix.ntest |-> k - 1]
       /\ \A k \in 1..Len(ix.train_idxs) : ix.train_idxs[k] \in 0..(ix.ntrain - 1)
       /\ \A k \in 1..Len(ix.test_idxs) : ix.test_idxs[k] \in 0..(ix.ntest - 1)

\* the part of the claim that holds: positive M and Mtest within the dataset
\* sizes select the first M (Mtest) examples, and non-positive ones everything
C12_WithinDataset ==
  (ix.pc # "idle" /\ ix.pc # "start" /\ ix.M <= ix.ntrain
     /\ (IF ix.script = "activations" THEN ix.Mtest ELSE ix.M) <= ix.ntest) =>
    /\ Len(ix.train_idxs) = (IF ix.M <= 0 THEN ix.ntrain ELSE ix.M)
    /\ Fetch(ix.train_idxs, ix.ntrain) = "ok"
    /\ Fetch(ix.test_idxs, ix.ntest) = "ok"
    /\ ix.pc # "IndexError"

----------------------------------------------------------------------------
(* esgd_dnn.py train_esgd *)

MaxDist == 2        \* optimizer.step reports dist in 0..MaxDist
MaxGrad == 1        \* optimizer.step reports norm_grad in 0..MaxGrad

InitTrain ==
  tr \in {[pc |-> "loop", n |-> n, bs |-> bs, y |-> y, loader |-> RobustBatchSizes(n, bs, y),
           counter |-> 0, train_loss |-> 0, accuracy |-> 0, ndata |-> 0,
           meandist |-> 0, mean_grad |-> 0, b_count |-> 0,
           steps |-> <<>>, file |-> <<>>, grads |-> <<>>, shown |-> <<>>, ret |-> <<>>] :
            n \in 1..MaxData, bs \in 1..MaxBatch, y \in 1..2}

TrainReturnOffByOne(t) ==
  [meandist |-> Rat(t.meandist, t.b_count + 1), mean_grad |-> Rat(t.mean_grad, t.b_count + 1)]

\* `return meandist/b_count, mean_grad/b_count, lr_out, g_esgd`
TrainReturn(t) ==
  [meandist |-> Rat(t.meandist, t.b_count), mean_grad |-> Rat(t.mean_grad, t.b_count)]

\* one iteration of `for counter, (data1, target1) in enumerate(t)`: optimizer.step
\* on the closure, the line written to file, the running sums, the progress bar.
\* The closure's batch is the first batch of a fresh single_loader iterator.
TrainStep ==
  /\ tr.pc = "loop" /\ tr.counter < Len(tr.loader)
  /\ \E myl \in 0..1, acc \in 0..BatchSizes(tr.n, tr.bs)[1], dist \in 0..MaxDist,
        norm_grad \in 0..MaxGrad :
       LET len1 == tr.loader[tr.counter + 1]
       IN tr' = [tr EXCEPT !.steps = Append(@, tr.counter + 1),
                           !.file = Append(@, dist),
                           !.grads = Append(@, norm_grad),
                           !.train_loss = @ + myl * len1,
                           !.accuracy = @ + acc,
                           !.ndata = @ + len1,
                           !.meandist = @ + dist,
                           !.mean_grad = @ + norm_grad,
                           !.b_count = @ + 1,
                           !.counter = @ + 1,
                           !.shown = [accuracy |-> tr.accuracy + acc, ndata |-> tr.ndata + len1]]
  /\ UNCHANGED <<dev, ev, rn, ix, fe>>
  /\ UNCHANGED mainVars

\* the loader is exhausted: the return statement
TrainDone ==
  /\ tr.pc = "loop" /\ tr.counter = Len(tr.loader)
  /\ tr' = [tr EXCEPT !.pc = "done", !.ret = TrainReturn(tr)]
  /\ UNCHANGED <<dev, ev, rn, ix, fe>>
  /\ UNCHANGED mainVars

InitTrainSpec == InitTrain /\ IdleMain /\ IdleDev /\ IdleEval /\ IdleNorm /\ IdleIdx /\ IdleFeval

NextTrain == TrainStep \/ TrainDone

SpecTrain == InitTrainSpec /\ [][NextTrain]_vars

\* C4: train_esgd calls optimizer.step once per batch of the loader, in loader
\* order, writes one distance line per call, and returns the sum of the
\* written distances and the sum of the gradient norms, each divided by the
\* number of calls.
C4_OneStepPerBatch ==
  tr.pc # "idle" =>
    /\ tr.steps = [k \in 1..tr.counter |-> k]
    /\ Len(tr.file) = Len(tr.steps)
    /\ Len(tr.grads) = Len(tr.steps)
    /\ tr.pc = "done" =>
         /\ Len(tr.steps) = Len(BatchSizes(tr.n, tr.bs))
         /\ tr.ret.meandist[1] * Len(tr.steps) = SumSeq(tr.file) * tr.ret.meandist[2]
         /\ tr.ret.mean_grad[1] * Len(tr.steps) = SumSeq(tr.grads) * tr.ret.mean_grad[2]

\* three batches, distances 2, 0, 2: the returned mean distance is 4/3
C4_Witness ==
  /\ tr.pc = "done" /\ tr.steps = <<1, 2, 3>> /\ tr.file = <<2, 0, 2>>
  /\ tr.ret.meandist = <<4, 3>>

\* `err=100*(1-accuracy/ndata)` of t.set_postfix
PostfixErr(accuracy, ndata) == RMul(RInt(100), RSub(RInt(1), Rat(accuracy, ndata)))

\* C14: the running training error shown by train_esgd counts correct
\* predictions and seen samples over the same samples: after any number of
\* steps accuracy <= ndata and the shown error 100*(1 - accuracy/ndata) lies
\* in [0, 100].
C14_RunningErrorInRange ==
  (tr.pc # "idle" /\ tr.counter > 0) =>
    /\ tr.accuracy <= tr.ndata
    /\ RLe(RInt(0), PostfixErr(tr.shown.accuracy, tr.shown.ndata))
    /\ RLe(PostfixErr(tr.shown.accuracy, tr.shown.ndata), RInt(100))

\* the same while every batch of the loader is as long as the closure's batch
C14_FullBatchesInRange ==
  (tr.pc # "idle" /\ tr.counter > 0
     /\ \A k \in 1..tr.counter : tr.loader[k] >= BatchSizes(tr.n, tr.bs)[1]) =>
    /\ tr.accuracy <= tr.ndata
    /\ RLe(RInt(0), PostfixErr(tr.shown.accuracy, tr.shown.ndata))
    /\ RLe(PostfixErr(tr.shown.accuracy, tr.shown.ndata), RInt(100))

----------------------------------------------------------------------------
(* esgd_dnn.py train_esgd: the closure feval passed to optimizer.step *)

MaxL == 3           \* optimizer.step evaluates the closure 1..MaxL times

\* the batches next(iter(loader)) can return: the sampler shuffles, so any
\* min(bs, n) of the n samples
FirstBatches(n, bs) == {b \in SUBSET (1..n) : Cardinality(b) = Min(bs, n)}

ZeroGradSkipped(grad) == grad

\* model.zero_grad(): no contribution is left in any .grad
ZeroGrad(grad) == <<>>

\* l.backward(): the gradient of the loss on the batch is added to .grad
Backward(grad, batch) == Append(grad, batch)

\* grad is the list of batches whose gradients are summed in the .grad fields;
\* stale marks gradients left over from the previous optimizer.step
InitFeval ==
  fe \in {[pc |-> "step", n |-> n, bs |-> bs, L |-> L, calls |-> 0, stale |-> st,
           data |-> {}, output |-> {}, grad |-> IF st THEN <<{0}>> ELSE <<>>,
           order |-> <<>>, evals |-> <<>>] :
            n \in 1..MaxData, bs \in 1..MaxBatch, L \in 1..MaxL, st \in BOOLEAN}

\* optimizer.step(helper(), model, loss, scheduler) evaluates the closure once more
FeCall ==
  /\ fe.pc = "step" /\ fe.calls < fe.L
  /\ fe' = [fe EXCEPT !.pc = "draw", !.calls = @ + 1, !.order = <<>>]
  /\ UNCHANGED <<dev, tr, ev, rn, ix>>
  /\ UNCHANGED mainVars

\* `data, target = next(iter(train_loader.single_loader()))`
FeDraw ==
  /\ fe.pc = "draw"
  /\ \E b \in FirstBatches(fe.n, fe.bs) :
       fe' = [fe EXCEPT !.pc = "zero", !.data = b, !.order = Append(@, "draw")]
  /\ UNCHANGED <<dev, tr, ev, rn, ix>>
  /\ UNCHANGED mainVars

\* `model.zero_grad()`
FeZeroGrad ==
  /\ fe.pc = "zero"
  /\ fe' = [fe EXCEPT !.pc = "forward", !.grad = ZeroGrad(fe.grad),
                      !.order = Append(@, "zero_grad")]
  /\ UNCHANGED <<dev, tr, ev, rn, ix>>
  /\ UNCHANGED mainVars

\* `output = model(data)`, `l = loss(output, target)`
FeForward ==
  /\ fe.pc = "forward"
  /\ fe' = [fe EXCEPT !.pc = "backward", !.output = fe.data, !.order = Append(@, "forward")]
  /\ UNCHANGED <<dev, tr, ev, rn, ix>>
  /\ UNCHANGED mainVars

\* `l.backward()` up to `return (l.item(), acc)`
FeBackward ==
  /\ fe.pc = "backward"
  /\ fe' = [fe EXCEPT !.pc = "step", !.grad = Backward(fe.grad, fe.output),
                      !.order = Append(@, "backward"),
                      !.evals = Append(@, [data |-> fe.data,
                                           grad |-> Backward(fe.grad, fe.output),
                                           order |-> Append(fe.order, "backward")])]
  /\ UNCHANGED <<dev, tr, ev, rn, ix>>
  /\ UNCHANGED mainVars

\* optimizer.step returns
FeStepDone ==
  /\ fe.pc = "step" /\ fe.calls = fe.L
  /\ fe' = [fe EXCEPT !.pc = "done"]
  /\ UNCHANGED <<dev, tr, ev, rn, ix>>
  /\ UNCHANGED mainVars

InitFevalSpec == InitFeval /\ IdleMain /\ IdleDev /\ IdleTrain /\ IdleEval /\ IdleNorm /\ IdleIdx

NextFeval == FeCall \/ FeDraw \/ FeZeroGrad \/ FeForward \/ FeBackward \/ FeStepDone

SpecFeval == InitFevalSpec /\ [][NextFeval]_vars

\* C15: every evaluation of the closure draws a batch, zeroes the gradients
\* and only then runs forward and backward, so the gradients present after an
\* evaluation come from that evaluation's batch alone, however many times
\* optimizer.step evaluates the closure.
C15_ClosureGradFresh ==
  fe.pc # "idle" =>
    /\ \A k \in 1..Len(fe.evals) :
         /\ fe.evals[k].order = <<"draw", "zero_grad", "forward", "backward">>
         /\ fe.evals[k].grad = <<fe.evals[k].data>>
    /\ (fe.pc \in {"step", "done"} /\ fe.calls > 0) => fe.grad = <<fe.data>>

\* three evaluations in one step, starting with gradients left from the step
\* before, the second on another batch than the first
C15_Witness ==
  /\ fe.pc = "done" /\ fe.stale /\ Len(fe.evals) = 3
  /\ fe.evals[1].data = {1, 2} /\ fe.evals[2].data = {2, 3}
  /\ fe.grad = <<fe.evals[3].data>>

----------------------------------------------------------------------------
(* esgd_dnn.py eval_loss_and_error *)

Zeros(y) == [a \in 1..y |-> 0]

InitEval ==
  ev \in {[pc |-> "loop", y |-> y, train |-> t, loader |-> BatchSizes(n, bs), k |-> 0,
           l |-> Zeros(y), accuracy |-> Zeros(y),
           center_loss |-> 0, center_accuracy |-> 0, center_accuracy5 |-> 0, ndata |-> 0,
           visited |-> <<>>, obs |-> <<>>, ret |-> <<>>] :
            n \in 1..MaxData, bs \in 1..MaxBatch, y \in 1..2, t \in BOOLEAN}

\* one batch of `for data, target in loader.single_loader()`: the y replica
\* outputs, then the center; q fixes the summed losses of the batch
EvalBatch ==
  /\ ev.pc = "loop" /\ ev.k < Len(ev.loader)
  /\ LET len == ev.loader[ev.k + 1]
     IN \E q \in 0..1, correct \in [1..ev.y -> 0..len], ccorrect \in 0..len :
          \E c5 \in {ccorrect, len} :
            LET loss == [a \in 1..ev.y |-> (q + a) * len]
            IN ev' = [ev EXCEPT
                 !.l = [a \in 1..ev.y |-> ev.l[a] + loss[a]],
                 !.accuracy = [a \in 1..ev.y |-> ev.accuracy[a] + correct[a]],
                 !.center_loss = @ + q * len,
                 !.center_accuracy = @ + ccorrect,
                 !.center_accuracy5 = IF ev.train THEN @ ELSE @ + c5,
                 !.ndata = @ + len,
                 !.k = @ + 1,
                 !.visited = Append(@, ev.k + 1),
                 !.obs = Append(@, [len |-> len, loss |-> loss, correct |-> correct,
                                    closs |-> q * len, ccorrect |-> ccorrect])]
  /\ UNCHANGED <<dev, tr, rn, ix, fe>>
  /\ UNCHANGED mainVars

ErrorOfUnscaled(acc, ndata) == RSub(RInt(1), Rat(acc, ndata))

\* `accuracy /= ndata` ... `(1-accuracy)*100`
ErrorOf(acc, ndata) == RMul(RSub(RInt(1), Rat(acc, ndata)), RInt(100))

\* the divisions after the loop and the return statement (norm_center left out)
EvalReturn ==
  /\ ev.pc = "loop" /\ ev.k = Len(ev.loader)
  /\ ev' = [ev EXCEPT !.pc = "done",
              !.ret = [l |-> [a \in 1..ev.y |-> Rat(ev.l[a], ev.ndata)],
                       error |-> [a \in 1..ev.y |-> ErrorOf(ev.accuracy[a], ev.ndata)],
                       center_loss |-> Rat(ev.center_loss, ev.ndata),
                       center_error |-> ErrorOf(ev.center_accuracy, ev.ndata),
                       center_error5 |-> ErrorOf(ev.center_accuracy5, ev.ndata)]]
  /\ UNCHANGED <<dev, tr, rn, ix, fe>>
  /\ UNCHANGED mainVars

InitEvalSpec == InitEval /\ IdleMain /\ IdleDev /\ IdleTrain /\ IdleNorm /\ IdleIdx /\ IdleFeval

NextEval == EvalBatch \/ EvalReturn

SpecEval == InitEvalSpec /\ [][NextEval]_vars

\* what the batches seen so far add up to
SeenOf(o) == SumSeq([k \in 1..Len(o) |-> o[k].len])
LossOf(o, a) == SumSeq([k \in 1..Len(o) |-> o[k].loss[a]])
CorrectOf(o, a) == SumSeq([k \in 1..Len(o) |-> o[k].correct[a]])
CLossOf(o) == SumSeq([k \in 1..Len(o) |-> o[k].closs])
CCorrectOf(o) == SumSeq([k \in 1..Len(o) |-> o[k].ccorrect])

\* C5: eval_loss_and_error visits every batch of the single loader once, in
\* order, and returns y losses and y errors plus the center loss and error;
\* each loss is the summed loss over the samples seen, each error is
\* 100 * (1 - correct / seen), and every error is between 0 and 100.
C5_EvalLossAndError ==
  ev.pc # "idle" =>
    /\ ev.visited = [k \in 1..ev.k |-> k]
    /\ ev.pc = "done" =>
         LET seen == SeenOf(ev.obs)
         IN /\ Len(ev.visited) = Len(ev.loader)
            /\ Len(ev.ret.l) = ev.y /\ Len(ev.ret.error) = ev.y
            /\ \A a \in 1..ev.y :
                 /\ ev.ret.l[a][1] * seen = LossOf(ev.obs, a) * ev.ret.l[a][2]
                 /\ ev.ret.error[a][1] * seen
                      = 100 * (seen - CorrectOf(ev.obs, a)) * ev.ret.error[a][2]
                 /\ RLe(RInt(0), ev.ret.error[a]) /\ RLe(ev.ret.error[a], RInt(100))
            /\ ev.ret.center_loss[1] * seen = CLossOf(ev.obs) * ev.ret.center_loss[2]
            /\ ev.ret.center_error[1] * seen
                 = 100 * (seen - CCorrectOf(ev.obs)) * ev.ret.center_error[2]
            /\ RLe(RInt(0), ev.ret.center_error) /\ RLe(ev.ret.center_error, RInt(100))

\* two batches of 2 and 1 samples, one correct prediction of replica 1: error 200/3
C5_Witness ==
  /\ ev.pc = "done" /\ ev.y = 2 /\ ev.visited = <<1, 2>> /\ ev.ndata = 3
  /\ ev.accuracy[1] = 1
  /\ ev.ret.error[1] = <<200, 3>>

----------------------------------------------------------------------------
(* normalization/models/resnet.py, on a network of one channel per layer,  *)
(* one BasicBlock and feature maps of two positions <<z1, z2>>             *)

MaxNormCalls == 2   \* norm() is called at most MaxNormCalls times

Relu(r) == IF r[1] < 0 THEN RInt(0) ELSE r

Sign(r) == IF r[1] > 0 THEN 1 ELSE IF r[1] < 0 THEN -1 ELSE 0

\* a convolution with a single weight, and F.conv2d(out, p, groups=channels)
Scale(z, w) == <<RMul(w, z[1]), RMul(w, z[2])>>

\* BatchNorm2d(eps=1e-12, track_running_stats=False) on two positions: the
\* batch statistics normalise <<z1, z2>> to <<s, -s>>, s the sign of z1 - z2
BatchNorm(z, bn) ==
  LET sg == Sign(RSub(z[1], z[2]))
  IN <<RAdd(RMul(bn.w, RInt(sg)), bn.b), RAdd(RMul(bn.w, RInt(-sg)), bn.b)>>

ReluMap(z) == <<Relu(z[1]), Relu(z[2])>>

AddMap(u, v) == <<RAdd(u[1], v[1]), RAdd(u[2], v[2])>>

\* the value of a one-element set; `Only({F(v) : v \in {e}})` is F(e) with e
\* evaluated first, as Python evaluates one statement before the next
Only(S) == CHOOSE v \in S : TRUE

\* BasicBlock.forward, statement by statement
BlockForward(b, xin) ==
  Only({ Only({ Only({ Only({ Only({ ReluMap(out) :
    out \in {IF b.has_shortcut /\ b.normed
               THEN AddMap(o2n, Scale(BatchNorm(Scale(xin, b.sc_conv), b.sc_bn),
                                      b.params_for_norm[3]))
               ELSE IF b.has_shortcut
                 THEN AddMap(o2n, BatchNorm(Scale(xin, b.sc_conv), b.sc_bn))
                 ELSE AddMap(o2n, xin)} }) :
    o2n \in {IF b.normed THEN Scale(o2, b.params_for_norm[2]) ELSE o2} }) :
    o2 \in {BatchNorm(Scale(o1n, b.conv2), b.bn2)} }) :
    o1n \in {IF b.normed THEN Scale(o1, b.params_for_norm[1]) ELSE o1} }) :
    o1 \in {ReluMap(BatchNorm(Scale(xin, b.conv1), b.bn1))} })

\* ResNet.forward, statement by statement: conv1 and bn1, the block, average
\* pooling, the linear layer
ResNetForward(m, x) ==
  Only({ Only({ Only({ Only({ Only({
    IF m.normed THEN RMul(res, m.params_for_norm[2]) ELSE res :
    res \in {RAdd(RMul(m.linear.w, pooled), m.linear.b)} }) :
    pooled \in {RDiv(RAdd(o[1], o[2]), RInt(2))} }) :
    o \in {BlockForward(m.block, hn)} }) :
    hn \in {IF m.normed THEN Scale(h, m.params_for_norm[1]) ELSE h} }) :
    h \in {ReluMap(BatchNorm(Scale(x, m.conv1), m.bn1))} })

\* a Conv2d child: each output row is divided by its norm
NormConv(w) == RDiv(w, RAbs(w))

\* the scale of a BatchNorm2d child: |weight| + |bias|
BnScale(bn) == RAdd(RAbs(bn.w), RAbs(bn.b))

\* a BatchNorm2d child: weight and bias are divided by the scale
NormBn(bn) == [w |-> RDiv(bn.w, BnScale(bn)), b |-> RDiv(bn.b, BnScale(bn))]

\* BasicBlock.norm
BlockNorm(b) ==
  [b EXCEPT !.conv1 = NormConv(b.conv1),
            !.bn1 = NormBn(b.bn1),
            !.conv2 = NormConv(b.conv2),
            !.bn2 = NormBn(b.bn2),
            !.sc_conv = IF b.has_shortcut THEN NormConv(b.sc_conv) ELSE b.sc_conv,
            !.sc_bn = IF b.has_shortcut THEN NormBn(b.sc_bn) ELSE b.sc_bn,
            !.params_for_norm = IF b.has_shortcut
                                  THEN <<BnScale(b.bn1), BnScale(b.bn2), BnScale(b.sc_bn)>>
                                  ELSE <<BnScale(b.bn1), BnScale(b.bn2)>>,
            !.normed = TRUE]

\* ResNet.norm
ResNetNorm(m) ==
  LET pl == RAdd(RAbs(m.linear.w), RAbs(m.linear.b))
  IN [m EXCEPT !.conv1 = NormConv(m.conv1),
               !.bn1 = NormBn(m.bn1),
               !.block = BlockNorm(m.block),
               !.linear = [w |-> RDiv(m.linear.w, pl), b |-> RDiv(m.linear.b, pl)],
               !.params_for_norm = <<BnScale(m.bn1), pl>>,
               !.normed = TRUE]

\* weights of trained layers; no row of a layer is all zero
ConvWeights == {RInt(-1), RInt(2)}
BnWeights == {[w |-> RInt(1), b |-> RInt(0)], [w |-> RInt(-1), b |-> RInt(2)]}
LinearWeights == {[w |-> RInt(1), b |-> RInt(0)], [w |-> RInt(2), b |-> RInt(-1)]}
Inputs == {<<RInt(1), RInt(3)>>, <<RInt(2), RInt(-1)>>}

\* ResNet(...) as constructed: normed = False, no params_for_norm yet
Models ==
  {[conv1 |-> c1, bn1 |-> b1, linear |-> ln, normed |-> FALSE, params_for_norm |-> <<>>,
    block |-> [conv1 |-> c2, bn1 |-> b2, conv2 |-> c3, bn2 |-> b3, has_shortcut |-> hs,
               sc_conv |-> c4, sc_bn |-> b4, normed |-> FALSE, params_for_norm |-> <<>>]] :
     c1 \in ConvWeights, c2 \in ConvWeights, c3 \in ConvWeights, b1 \in BnWeights,
     b2 \in BnWeights, b3 \in BnWeights, ln \in LinearWeights, hs \in BOOLEAN,
     c4 \in {RInt(2)}, b4 \in BnWeights}

InitNorm ==
  rn \in {[pc |-> "run", x |-> x, model |-> m, y |-> <<>>, ncalls |-> 0] :
            x \in Inputs, m \in Models}

\* `y = model(x)`
RnForward ==
  /\ rn.pc = "run"
  /\ rn' = [rn EXCEPT !.y = ResNetForward(rn.model, rn.x)]
  /\ UNCHANGED <<dev, tr, ev, ix, fe>>
  /\ UNCHANGED mainVars

\* `model.norm()`
RnNorm ==
  /\ rn.pc = "run" /\ rn.ncalls < MaxNormCalls
  /\ rn' = [rn EXCEPT !.model = ResNetNorm(rn.model), !.ncalls = @ + 1]
  /\ UNCHANGED <<dev, tr, ev, ix, fe>>
  /\ UNCHANGED mainVars

InitNormSpec == InitNorm /\ IdleMain /\ IdleDev /\ IdleTrain /\ IdleEval /\ IdleIdx /\ IdleFeval

NextNorm == RnForward \/ RnNorm

SpecNorm == InitNormSpec /\ [][NextNorm]_vars

\* C6: a call of ResNet.norm() leaves model(x) unchanged.
C6_NormPreservesFunction ==
  [][rn'.ncalls # rn.ncalls
       => ResNetForward(rn'.model, rn.x) = ResNetForward(rn.model, rn.x)]_vars

\* the first call of norm() on a model leaves model(x) unchanged
C6_FirstNormPreserves ==
  [][(rn.ncalls = 0 /\ rn'.ncalls = 1)
       => ResNetForward(rn'.model, rn.x) = ResNetForward(rn.model, rn.x)]_vars

====
